---- MODULE Spec2Model ----
(***************************************************************************)
(* The marginal subisotopologue engine of IsoSpec                          *)
(* (IsoSpec++/marginalTrek++.cpp, IsoSpec++/marginalTrek++.h): the base    *)
(* Marginal and its three specialisations, MarginalTrek,                   *)
(* PrecalculatedMarginal and LayeredMarginal.                              *)
(*                                                                         *)
(* Number representation.  An isotope probability is the exact rational    *)
(* atom_lProbs[i] / Den.  A log-probability x of a configuration of        *)
(* atomCnt atoms is represented by the integer exp(x) * Den^atomCnt, which *)
(* for logProb(conf) is                                                    *)
(*     atomCnt! / (conf[1]! * ... * conf[k]!) * w1^conf[1] * ... * wk^conf[k]. *)
(* x |-> exp(x) * Den^atomCnt is strictly increasing, so every comparison  *)
(* the code makes between log-probabilities (and between a log-probability *)
(* and a threshold) has the same outcome on the representatives.  The      *)
(* arithmetic is that of exact reals: floating-point rounding is not       *)
(* represented.  -infinity is represented by 0 (= exp(-infinity)).         *)
(*                                                                         *)
(* A configuration (Conf, an int array of isotopeNo entries) is a tuple;   *)
(* Allocator<int>::makeCopy yields an equal tuple.  The hash containers    *)
(* keyed by KeyHasher / ConfEqual are sets of tuples.                      *)
(***************************************************************************)
EXTENDS Integers, Sequences, FiniteSets, TLC

\* ------------------------------------------------------------------ bounds
\* Largest number of atoms of the element.
MaxAtoms == 4
\* Largest number of configurations of a marginal, C(n + k - 1, k - 1) for
\* n atoms of an element of k isotopes.
MaxConfs == 10
\* Common denominator of the isotope probabilities: p_i = w_i / Den.
Den == 4
\* Largest number of LayeredMarginal::extend calls followed in one run.
MaxExtends == 3
\* Largest number of isotopes in the arguments tried on the constructor.
MaxIsotopes == 3
\* Largest number of Marginal instances followed in one run.
MaxInstances == 3
\* The isotope masses; a marginal of k isotopes takes the first k.
MassTable == << 12, 13, 15, 11, 18, 14, 17, 16 >>

\* -infinity and +infinity on the scale of the representation above.
NegInf == 0
PlusInf == 1000000000

VARIABLES
    kind,               \* which class the live object is
    isotopeNo, atomCnt, atom_lProbs, atom_masses, mode_conf,    \* Marginal
    current_count, pq, visited, totalProb,                      \* MarginalTrek
    confs, conf_lprobs, conf_masses,                            \* MarginalTrek
    lCutOff, sort,                          \* PrecalculatedMarginal arguments
    configurations, lProbs, probs, masses,  \* Precalculated / Layered
    current_threshold, fringe, sorted_up_to_idx,                \* Layered
    extends,            \* number of extend calls made so far
    thresholds,         \* the thresholds passed to the extend calls that returned true
    ret,                \* value returned by the last call returning bool
    probed,             \* the last MarginalTrek call, if probeConfigurationIdx:
                        \* its idx and current_count on entry; << >> otherwise
    seek,               \* the last MarginalTrek call, if processUntilCutoff:
                        \* its cutoff, current_count on entry and the value
                        \* returned; << >> otherwise
    frame,              \* the locals of a writeInitialConfiguration call
                        \* followed statement by statement and the
                        \* statement it stands at; << >> outside one
    args,               \* arguments handed to Marginal::Marginal
    thrown,             \* exception Marginal::Marginal left with, "" for none
    fenv,               \* the rounding mode of the process: before, when
                        \* Marginal::Marginal was called, and now
    instances,          \* the Marginal instances made: pointers and disowned
    heap                \* per array allocated with new[]: times delete[]d

vars == << kind, isotopeNo, atomCnt, atom_lProbs, atom_masses, mode_conf,
           current_count, pq, visited, totalProb, confs, conf_lprobs,
           conf_masses, lCutOff, sort, configurations, lProbs, probs, masses,
           current_threshold, fringe, sorted_up_to_idx, extends, thresholds,
           ret, probed, seek, frame, args, thrown, fenv,
           instances, heap >>

marginalVars == << isotopeNo, atomCnt, atom_lProbs, atom_masses >>
trekVars == << current_count, pq, visited, totalProb, confs, conf_lprobs,
               conf_masses, probed, seek >>
precalcVars == << lCutOff, sort >>
tableVars == << configurations, lProbs, probs, masses >>
layeredVars == << current_threshold, fringe, sorted_up_to_idx, extends,
                 thresholds >>
ctorVars == << args, thrown, fenv >>
ownerVars == << instances, heap >>

\* The null pointer of a Conf.
nullptr == << >>

\* ----------------------------------------------------------------- numerics
RECURSIVE FactorialOf(_)
FactorialOf(x) ==
    IF x <= 0 THEN 1 ELSE x * FactorialOf(x - 1)

\* The factorials, tabulated once as the code tabulates log(x!).
FactorialTable ==
    [x \in 0..(MaxAtoms + Den + 1) |-> FactorialOf(x)]

\* x!, the number that minuslogFactorial(x) = -log(x!) stands for.
Factorial(x) ==
    IF x \in DOMAIN FactorialTable THEN FactorialTable[x] ELSE FactorialOf(x)

RECURSIVE PowerOf(_, _)
PowerOf(b, e) ==
    IF e <= 0 THEN 1 ELSE b * PowerOf(b, e - 1)

PowerTable ==
    [b \in 1..Den |-> [e \in 0..(MaxAtoms + 1) |-> PowerOf(b, e)]]

\* b^e, the number that e * log(b) stands for.
Power(b, e) ==
    IF b \in DOMAIN PowerTable /\ e \in DOMAIN PowerTable[b]
    THEN PowerTable[b][e] ELSE PowerOf(b, e)

\* C(n, k)
Binomial(n, k) ==
    Factorial(n) \div (Factorial(k) * Factorial(n - k))

\* conf[1] + ... + conf[i]
RECURSIVE SumTo(_, _)
SumTo(conf, i) ==
    IF i = 0 THEN 0 ELSE conf[i] + SumTo(conf, i - 1)

\* conf[1]! * ... * conf[i]!
RECURSIVE FactProd(_, _)
FactProd(conf, i) ==
    IF i = 0 THEN 1 ELSE Factorial(conf[i]) * FactProd(conf, i - 1)

\* w1^conf[1] * ... * wi^conf[i]
RECURSIVE WeightProd(_, _, _)
WeightProd(conf, lprobs, i) ==
    IF i = 0 THEN 1
    ELSE Power(lprobs[i], conf[i]) * WeightProd(conf, lprobs, i - 1)

\* sum over i of minuslogFactorial(conf[i]) + conf[i] * lprobs[i], represented
\* by exp(.) * (sum conf)! * Den^(sum conf): the multinomial coefficient of
\* conf times the product of the weights.
unnormalized_logProb(conf, lprobs, dim) ==
    (Factorial(SumTo(conf, dim)) \div FactProd(conf, dim))
        * WeightProd(conf, lprobs, dim)

\* loggamma_nominator + unnormalized_logProb(conf), represented by
\* exp(.) * Den^atomCnt.
logProb(conf) ==
    (Factorial(atomCnt) * WeightProd(conf, atom_lProbs, isotopeNo))
        \div FactProd(conf, isotopeNo)

\* sum over i of conf[i] * masses[i]
RECURSIVE calc_mass(_, _, _)
calc_mass(conf, amasses, dim) ==
    IF dim = 0 THEN 0
    ELSE conf[dim] * amasses[dim] + calc_mass(conf, amasses, dim - 1)

\* The configuration obtained from conf by ++conf[i], --conf[j].
Transfer(conf, i, j) ==
    [conf EXCEPT ![i] = conf[i] + 1, ![j] = conf[j] - 1]

\* The configurations of the marginal: k non-negative entries summing to n.
RECURSIVE Simplex(_, _)
Simplex(k, n) ==
    IF k = 1 THEN { << n >> }
    ELSE UNION { { Append(c, last) : c \in Simplex(k - 1, n - last) } :
                 last \in 0..n }

\* ------------------------------------------------------------- mode finder
\* for i < dim: res[i] = static_cast<int>(atomCnt * exp(lprobs[i])) + 1,
\* the array res built entry by entry.
RECURSIVE SeedFloor(_, _, _)
SeedFloor(atomCnt_, dim, lprobs) ==
    IF dim = 0 THEN << >>
    ELSE Append(SeedFloor(atomCnt_, dim - 1, lprobs),
                ((atomCnt_ * lprobs[dim]) \div Den) + 1)

\* The while(diff > 0) loop removing the excess from index i onward.
RECURSIVE Redistribute(_, _, _)
Redistribute(res, i, diff) ==
    IF diff <= 0 THEN res
    ELSE LET coordDiff == res[i] - diff IN
         IF coordDiff >= 0
         THEN [res EXCEPT ![i] = res[i] - diff]
         ELSE Redistribute([res EXCEPT ![i] = 0], i + 1, -coordDiff)

SeedConfiguration(atomCnt_, dim, lprobs) ==
    LET res == SeedFloor(atomCnt_, dim, lprobs)
        s == SumTo(res, dim)
        diff == atomCnt_ - s
    IN  IF diff > 0 THEN [res EXCEPT ![1] = res[1] + diff]
        ELSE IF diff < 0 THEN Redistribute(res, 1, -diff)
        ELSE res

\* ClimbAccepts with the climb switched off: the seed is returned as the mode.
ClimbAccepts_never(NLP, LP, ii, jj) ==
    FALSE

\* ClimbAccepts keeping every equally probable transfer.
ClimbAccepts_ties(NLP, LP, ii, jj) ==
    NLP >= LP

\* ClimbAccepts breaking ties towards the larger index.
ClimbAccepts_reversed(NLP, LP, ii, jj) ==
    NLP > LP \/ (NLP = LP /\ ii < jj)

\* Whether the hill climb keeps a transfer (--res[ii], ++res[jj]) that takes
\* the unnormalized log-probability from LP to NLP.
ClimbAccepts(NLP, LP, ii, jj) ==
    NLP > LP \/ (NLP = LP /\ ii > jj)

\* One pass of the two nested for loops, from pair number t on; pairs are
\* numbered in loop order, ii outer and jj inner.  Yields <<res, modified>>.
RECURSIVE ClimbScan(_, _, _, _, _)
ClimbScan(res, modified, t, dim, lprobs) ==
    IF t >= dim * dim THEN << res, modified >>
    ELSE LET ii == (t \div dim) + 1
             jj == (t % dim) + 1
         IN  IF ii # jj /\ res[ii] > 0
             THEN LET cand == Transfer(res, jj, ii)
                      LP == unnormalized_logProb(res, lprobs, dim)
                      NLP == unnormalized_logProb(cand, lprobs, dim)
                  IN  IF ClimbAccepts(NLP, LP, ii, jj)
                      THEN ClimbScan(cand, TRUE, t + 1, dim, lprobs)
                      ELSE ClimbScan(res, modified, t + 1, dim, lprobs)
             ELSE ClimbScan(res, modified, t + 1, dim, lprobs)

\* Climb making a single pass over the pairs.
Climb_once(res, dim, lprobs) ==
    ClimbScan(res, FALSE, 0, dim, lprobs)[1]

\* while(modified) { modified = false; scan }
RECURSIVE Climb(_, _, _)
Climb(res, dim, lprobs) ==
    LET r == ClimbScan(res, FALSE, 0, dim, lprobs)
    IN  IF r[2] THEN Climb(r[1], dim, lprobs) ELSE r[1]

writeInitialConfiguration(atomCnt_, dim, lprobs) ==
    Climb(SeedConfiguration(atomCnt_, dim, lprobs), dim, lprobs)

\* ------------------------------------------------------------------- heap
\* std::priority_queue over Conf with the comparator orderMarginal
\* (ConfOrderMarginal): conf1 orders before conf2 iff it is less probable.
\* The queue is the underlying array, a binary max-heap kept by
\* std::push_heap / std::pop_heap; positions are 0-based as in the array.
\* orderMarginal letting equally probable configurations order before one
\* another.
orderMarginal_orequal(conf1, conf2) ==
    unnormalized_logProb(conf1, atom_lProbs, isotopeNo)
        <= unnormalized_logProb(conf2, atom_lProbs, isotopeNo)

orderMarginal(conf1, conf2) ==
    unnormalized_logProb(conf1, atom_lProbs, isotopeNo)
        < unnormalized_logProb(conf2, atom_lProbs, isotopeNo)

\* Sift value up from holeIndex, not above topIndex.
RECURSIVE PushHeap(_, _, _, _)
PushHeap(h, holeIndex, topIndex, value) ==
    LET parent == (holeIndex - 1) \div 2 IN
    IF holeIndex > topIndex /\ orderMarginal(h[parent + 1], value)
    THEN PushHeap([h EXCEPT ![holeIndex + 1] = h[parent + 1]],
                  parent, topIndex, value)
    ELSE [h EXCEPT ![holeIndex + 1] = value]

\* Move the hole at holeIndex down to a leaf along the larger children.
\* Yields <<h, holeIndex>>.
RECURSIVE SiftHoleDown(_, _, _)
SiftHoleDown(h, holeIndex, len) ==
    IF holeIndex < (len - 1) \div 2
    THEN LET right == 2 * (holeIndex + 1)
             child == IF orderMarginal(h[right + 1], h[right]) THEN right - 1
                      ELSE right
         IN  SiftHoleDown([h EXCEPT ![holeIndex + 1] = h[child + 1]],
                          child, len)
    ELSE IF len % 2 = 0 /\ holeIndex = (len - 2) \div 2
    THEN LET child == 2 * (holeIndex + 1) - 1
         IN  << [h EXCEPT ![holeIndex + 1] = h[child + 1]], child >>
    ELSE << h, holeIndex >>

AdjustHeap(h, len, value) ==
    LET r == SiftHoleDown(h, 0, len)
    IN  PushHeap(r[1], r[2], 0, value)

\* PqPush that leaves the new element at the end of the array.
PqPush_append(h, conf) ==
    Append(h, conf)

\* pq.push(conf)
PqPush(h, conf) ==
    PushHeap(Append(h, conf), Len(h), 0, conf)

\* pq.top()
PqTop(h) ==
    h[1]

\* pq.pop()
PqPop(h) ==
    IF Len(h) <= 1 THEN << >>
    ELSE SubSeq(AdjustHeap(h, Len(h) - 1, h[Len(h)]), 1, Len(h) - 1)

\* ------------------------------------------------------------------ sorting
\* ConfOrderMarginalDescending: conf1 goes before conf2 iff it is more
\* probable.
orderMarginalDescending(conf1, conf2) ==
    unnormalized_logProb(conf1, atom_lProbs, isotopeNo)
        > unnormalized_logProb(conf2, atom_lProbs, isotopeNo)

\* sorted with x put in: after every element that goes before x; among the
\* elements equal to x under the comparator, after them all (rev = FALSE) or
\* before them all (rev = TRUE).
RECURSIVE InsertSorted(_, _, _, _)
InsertSorted(sorted, x, at, rev) ==
    IF at > Len(sorted) THEN Append(sorted, x)
    ELSE IF orderMarginalDescending(x, sorted[at])
            \/ (rev /\ ~orderMarginalDescending(sorted[at], x))
         THEN SubSeq(sorted, 1, at - 1) \o << x >>
                  \o SubSeq(sorted, at, Len(sorted))
         ELSE InsertSorted(sorted, x, at + 1, rev)

RECURSIVE SortInto(_, _, _, _)
SortInto(sorted, seq, at, rev) ==
    IF at > Len(seq) THEN sorted
    ELSE SortInto(InsertSorted(sorted, seq[at], 1, rev), seq, at + 1, rev)

\* std::sort(first, last, orderMarginal) on the sequence seq.  std::sort
\* leaves the relative order of equal elements unspecified: rev chooses
\* between keeping and reversing the order they had.
StdSort(seq, rev) ==
    SortInto(<< >>, seq, 1, rev)

\* LProbsOf stopping one configuration early.
LProbsOf_short(cs) ==
    [i \in 1..(Len(cs) - 1) |-> logProb(cs[i])]

\* The tables filled from the configurations cs: lProbs[ii] =
\* logProb(confs[ii]), probs[ii] = exp(lProbs[ii]), masses[ii] = calc_mass.
LProbsOf(cs) ==
    [i \in 1..Len(cs) |-> logProb(cs[i])]

\* exp(lProbs[i]): on the representation, exp(x) * Den^atomCnt.
ProbsOf(cs) ==
    [i \in 1..Len(cs) |-> logProb(cs[i])]

\* MassesOf filling the masses from the last configuration to the first.
MassesOf_reversed(cs) ==
    [i \in 1..Len(cs) |->
        calc_mass(cs[Len(cs) + 1 - i], atom_masses, isotopeNo)]

\* masses[ii] = calc_mass(confs[ii], atom_masses, isotopeNo)
MassesOf(cs) ==
    [i \in 1..Len(cs) |-> calc_mass(cs[i], atom_masses, isotopeNo)]

\* ------------------------------------------------- PrecalculatedMarginal
\* PrecalcAccepts with a strict comparison against the cutoff.
PrecalcAccepts_strict(conf, vis, lCutOff_) ==
    conf \notin vis /\ logProb(conf) > lCutOff_

\* Whether the constructor stores a configuration it reaches.
PrecalcAccepts(conf, vis, lCutOff_) ==
    conf \notin vis /\ logProb(conf) >= lCutOff_

\* The two nested for loops over the neighbours of currentConf, from pair
\* number t on.  Yields <<configurations, visited>>.
RECURSIVE PrecalcNeighbours(_, _, _, _, _)
PrecalcNeighbours(currentConf, cs, vis, t, lCutOff_) ==
    IF t >= isotopeNo * isotopeNo THEN << cs, vis >>
    ELSE LET ii == (t \div isotopeNo) + 1
             jj == (t % isotopeNo) + 1
         IN  IF ii # jj /\ currentConf[jj] > 0
             THEN LET cand == Transfer(currentConf, ii, jj)
                  IN  IF PrecalcAccepts(cand, vis, lCutOff_)
                      THEN PrecalcNeighbours(currentConf, Append(cs, cand),
                                             vis \cup {cand}, t + 1, lCutOff_)
                      ELSE PrecalcNeighbours(currentConf, cs, vis, t + 1,
                                             lCutOff_)
             ELSE PrecalcNeighbours(currentConf, cs, vis, t + 1, lCutOff_)

\* while(idx < configurations.size()); idx is 0-based.
RECURSIVE PrecalcLoop(_, _, _, _)
PrecalcLoop(cs, vis, idx, lCutOff_) ==
    IF idx >= Len(cs) THEN cs
    ELSE LET r == PrecalcNeighbours(cs[idx + 1], cs, vis, 0, lCutOff_)
         IN  PrecalcLoop(r[1], r[2], idx + 1, lCutOff_)

\* PrecalcConfigurations seeding the mode without comparing it to the cutoff.
PrecalcConfigurations_unchecked(lCutOff_) ==
    PrecalcLoop(<< mode_conf >>, {mode_conf}, 0, lCutOff_)

\* The configurations vector before sorting.
PrecalcConfigurations(lCutOff_) ==
    IF logProb(mode_conf) >= lCutOff_
    THEN PrecalcLoop(<< mode_conf >>, {mode_conf}, 0, lCutOff_)
    ELSE << >>

\* PrecalcSorted ignoring the sort argument.
PrecalcSorted_unsorted(lCutOff_, sort_, rev) ==
    PrecalcConfigurations(lCutOff_)

\* The configurations vector after the optional sort.
PrecalcSorted(lCutOff_, sort_, rev) ==
    IF sort_ THEN StdSort(PrecalcConfigurations(lCutOff_), rev)
    ELSE PrecalcConfigurations(lCutOff_)

\* --------------------------------------------------------- LayeredMarginal
\* InitialThreshold starting from -infinity.
InitialThreshold_neginf ==
    NegInf

\* current_threshold(1.0) of the constructor: the log-probability 1.0 is
\* e * Den^atomCnt on the representation, which is no integer; against the
\* integers it is compared with, it acts as its ceiling.
InitialThreshold ==
    ((27182 * Power(Den, atomCnt)) \div 10000) + 1

\* LayeredAccepts without the tie-break on equal log-probabilities.
LayeredAccepts_strict(cand, vis, lpc, opc, ii, jj, cur_threshold) ==
    /\ cand \notin vis
    /\ lpc < cur_threshold
    /\ opc > lpc

\* LayeredAccepts with the tie-break towards the smaller index.
LayeredAccepts_tiesdown(cand, vis, lpc, opc, ii, jj, cur_threshold) ==
    /\ cand \notin vis
    /\ lpc < cur_threshold
    /\ (opc > lpc \/ (opc = lpc /\ ii < jj))

\* LayeredAccepts taking the more probable neighbours instead of the less
\* probable ones.
LayeredAccepts_uphill(cand, vis, lpc, opc, ii, jj, cur_threshold) ==
    /\ cand \notin vis
    /\ lpc < cur_threshold
    /\ (opc < lpc \/ (opc = lpc /\ ii > jj))

\* Whether extend takes the neighbour reached from a configuration of
\* log-probability opc by ++[ii], --[jj], of log-probability lpc.
LayeredAccepts(cand, vis, lpc, opc, ii, jj, cur_threshold) ==
    /\ cand \notin vis
    /\ lpc < cur_threshold
    /\ (opc > lpc \/ (opc = lpc /\ ii > jj))

\* The two nested for loops over the neighbours of currentConf, from pair
\* number t on.  s is [fringe, new_fringe, visited].
RECURSIVE LayeredNeighbours(_, _, _, _, _)
LayeredNeighbours(currentConf, s, t, new_threshold, cur_threshold) ==
    IF t >= isotopeNo * isotopeNo THEN s
    ELSE LET ii == (t \div isotopeNo) + 1
             jj == (t % isotopeNo) + 1
         IN  IF ii # jj /\ currentConf[jj] > 0
             THEN LET nc == Transfer(currentConf, ii, jj)
                      lpc == logProb(nc)
                      opc == logProb(currentConf)
                  IN  IF LayeredAccepts(nc, s.visited, lpc, opc, ii, jj,
                                        cur_threshold)
                      THEN LayeredNeighbours(currentConf,
                               [ fringe |-> IF lpc >= new_threshold
                                            THEN Append(s.fringe, nc)
                                            ELSE s.fringe,
                                 new_fringe |-> IF lpc >= new_threshold
                                                THEN s.new_fringe
                                                ELSE Append(s.new_fringe, nc),
                                 visited |-> s.visited \cup {nc} ],
                               t + 1, new_threshold, cur_threshold)
                      ELSE LayeredNeighbours(currentConf, s, t + 1,
                                             new_threshold, cur_threshold)
             ELSE LayeredNeighbours(currentConf, s, t + 1, new_threshold,
                                    cur_threshold)

\* BelowThreshold with a non-strict comparison.
BelowThreshold_inclusive(opc, new_threshold) ==
    opc <= new_threshold

\* Whether a configuration popped off the fringe stays in the fringe.
BelowThreshold(opc, new_threshold) ==
    opc < new_threshold

\* while(!fringe.empty()): s is [fringe, new_fringe, visited], cs the
\* configurations vector.  Yields <<configurations, new_fringe>>.
RECURSIVE ExtendLoop(_, _, _, _)
ExtendLoop(s, cs, new_threshold, cur_threshold) ==
    IF s.fringe = << >> THEN << cs, s.new_fringe >>
    ELSE LET currentConf == s.fringe[Len(s.fringe)]
             popped == [s EXCEPT !.fringe = SubSeq(s.fringe, 1,
                                                   Len(s.fringe) - 1)]
             opc == logProb(currentConf)
         IN  IF BelowThreshold(opc, new_threshold)
             THEN ExtendLoop([popped EXCEPT !.new_fringe =
                                  Append(popped.new_fringe, currentConf)],
                             cs, new_threshold, cur_threshold)
             ELSE ExtendLoop(LayeredNeighbours(currentConf, popped, 0,
                                               new_threshold, cur_threshold),
                             Append(cs, currentConf), new_threshold,
                             cur_threshold)

\* The elements of a sequence.
Range(seq) ==
    { seq[i] : i \in 1..Len(seq) }

\* SortTail leaving the vector as extend filled it.
SortTail_none(cs, from, rev) ==
    cs

\* SortTail sorting the whole vector.
SortTail_whole(cs, from, rev) ==
    StdSort(cs, rev)

\* configurations with the part from sorted_up_to_idx on sorted.
SortTail(cs, from, rev) ==
    SubSeq(cs, 1, from) \o StdSort(SubSeq(cs, from + 1, Len(cs)), rev)

\* LayeredMarginal::get_lProb(idx), a read of guarded_lProbs = lProbs.data()+1
\* at idx; the sequence lProbs is indexed from 1, the vector from 0.
get_lProb(idx) ==
    lProbs[idx + 2]

\* The log-probability cutoffs tried.  A cutoff is only ever compared with
\* the log-probability of a configuration of the marginal, so a cutoff that
\* lies strictly between two such values acts as the larger of them: the
\* values themselves, one cutoff above them all, and -infinity cover every
\* cutoff.
Cutoffs ==
    { logProb(c) : c \in Simplex(isotopeNo, atomCnt) }
        \cup { NegInf, Power(Den, atomCnt) + 1 }

\* ---------------------------------------------------------- MarginalTrek
\* TrekPair considering only the transfers towards a smaller index.
TrekPair_upper(topConf, i, j) ==
    i < j /\ topConf[j] > 0

\* TrekPair without the remain-on-simplex condition.
TrekPair_offsimplex(topConf, i, j) ==
    i # j

\* The guard of the loop body: the growing index differs from the decreasing
\* one and the candidate stays on the simplex.
TrekPair(topConf, i, j) ==
    i # j /\ topConf[j] > 0

\* TrekUnvisited without the lookup.
TrekUnvisited_always(candidate, vis) ==
    TRUE

\* visited.count(candidate) == 0
TrekUnvisited(candidate, vis) ==
    candidate \notin vis

\* The body of the two nested for loops of add_next_conf from pair number t
\* on: every unvisited neighbour of topConf is marked visited and pushed.
\* Yields <<pq, visited>>.
RECURSIVE TrekNeighbours(_, _, _, _)
TrekNeighbours(topConf, h, vis, t) ==
    IF t >= isotopeNo * isotopeNo THEN << h, vis >>
    ELSE LET i == (t \div isotopeNo) + 1
             j == (t % isotopeNo) + 1
         IN  IF TrekPair(topConf, i, j)
             THEN LET candidate == Transfer(topConf, i, j)
                  IN  IF TrekUnvisited(candidate, vis)
                      THEN TrekNeighbours(topConf, PqPush(h, candidate),
                                          vis \cup {candidate}, t + 1)
                      ELSE TrekNeighbours(topConf, h, vis, t + 1)
             ELSE TrekNeighbours(topConf, h, vis, t + 1)

\* The state of a MarginalTrek after add_next_conf, as a record of the fields
\* it writes, from the state given as a record.
AddNextConf(s) ==
    IF Len(s.pq) < 1 THEN [s EXCEPT !.ret = FALSE]
    ELSE LET topConf == PqTop(s.pq)
             logprob == logProb(topConf)
             r == TrekNeighbours(topConf, PqPop(s.pq), s.visited, 0)
         IN  [ pq |-> r[1],
               visited |-> r[2],
               current_count |-> s.current_count + 1,
               confs |-> Append(s.confs, topConf),
               conf_masses |-> Append(s.conf_masses,
                                  calc_mass(topConf, atom_masses, isotopeNo)),
               conf_lprobs |-> Append(s.conf_lprobs, logprob),
               totalProb |-> s.totalProb + logprob,
               ret |-> TRUE ]

TrekState ==
    [ pq |-> pq, visited |-> visited, current_count |-> current_count,
      confs |-> confs, conf_masses |-> conf_masses,
      conf_lprobs |-> conf_lprobs, totalProb |-> totalProb, ret |-> ret ]

SetTrek(s) ==
    /\ pq' = s.pq
    /\ visited' = s.visited
    /\ current_count' = s.current_count
    /\ confs' = s.confs
    /\ conf_masses' = s.conf_masses
    /\ conf_lprobs' = s.conf_lprobs
    /\ totalProb' = s.totalProb
    /\ ret' = s.ret

\* ----------------------------------------------------------------- actions
\* The valid inputs of Marginal::Marginal: k >= 1 isotopes, every probability
\* in (0, 1], the probabilities summing to at most 1 (so that k <= Den).
ValidProbs(k) ==
    { w \in [1..k -> 1..Den] : SumTo(w, k) <= Den }

Init ==
    /\ kind = "Marginal"
    /\ isotopeNo \in 1..Den
    /\ atomCnt \in 0..MaxAtoms
    /\ Binomial(atomCnt + isotopeNo - 1, isotopeNo - 1) <= MaxConfs
    /\ atom_lProbs \in ValidProbs(isotopeNo)
    /\ atom_masses = SubSeq(MassTable, 1, isotopeNo)
    /\ mode_conf = nullptr
    /\ current_count = 0
    /\ pq = << >>
    /\ visited = {}
    /\ totalProb = 0
    /\ confs = << >>
    /\ conf_lprobs = << >>
    /\ conf_masses = << >>
    /\ lCutOff = NegInf
    /\ sort = FALSE
    /\ configurations = << >>
    /\ lProbs = << >>
    /\ probs = << >>
    /\ masses = << >>
    /\ current_threshold = NegInf
    /\ fringe = << >>
    /\ sorted_up_to_idx = 0
    /\ extends = 0
    /\ thresholds = << >>
    /\ ret = TRUE
    /\ probed = << >>
    /\ seek = << >>
    /\ frame = << >>
    /\ args = [ isotopeNo |-> isotopeNo, atomCnt |-> atomCnt,
                probs |-> atom_lProbs ]
    /\ thrown = ""
    /\ fenv = [ before |-> "FE_TONEAREST", now |-> "FE_TONEAREST" ]
    /\ instances = << >>
    /\ heap = << >>

\* Marginal::ensureModeConf on a marginal whose mode is not set: setupMode.
ensureModeConf ==
    /\ kind = "Marginal"
    /\ mode_conf = nullptr
    /\ mode_conf' = writeInitialConfiguration(atomCnt, isotopeNo, atom_lProbs)
    /\ UNCHANGED << kind, frame, ctorVars, ownerVars,
                    marginalVars, trekVars, precalcVars, tableVars,
                    layeredVars, ret >>

\* MarginalTrek::MarginalTrek(Marginal&&): the mode is put in the queue and
\* marked visited, then add_next_conf runs once.
NewMarginalTrek ==
    /\ kind = "Marginal"
    /\ mode_conf # nullptr
    /\ kind' = "MarginalTrek"
    /\ SetTrek(AddNextConf([ pq |-> PqPush(<< >>, mode_conf),
                             visited |-> {mode_conf},
                             current_count |-> 0,
                             confs |-> << >>,
                             conf_masses |-> << >>,
                             conf_lprobs |-> << >>,
                             totalProb |-> 0,
                             ret |-> ret ]))
    /\ probed' = << >>
    /\ seek' = << >>
    /\ UNCHANGED << frame, ctorVars, ownerVars,
                    marginalVars, mode_conf, precalcVars, tableVars,
                    layeredVars >>

\* MarginalTrek::add_next_conf
add_next_conf ==
    /\ kind = "MarginalTrek"
    /\ SetTrek(AddNextConf(TrekState))
    /\ probed' = << >>
    /\ seek' = << >>
    /\ UNCHANGED << kind, frame, ctorVars, ownerVars,
                    marginalVars, mode_conf, precalcVars, tableVars,
                    layeredVars >>

\* ProbeNeeded stopping one configuration early.
ProbeNeeded_strict(count, idx_) ==
    count < idx_

\* current_count <= idx, the loop condition of probeConfigurationIdx.
ProbeNeeded(count, idx_) ==
    count <= idx_

\* while(current_count <= idx) if(!add_next_conf()) return false;
\* return true;
RECURSIVE ProbeLoop(_, _)
ProbeLoop(s, idx_) ==
    IF ProbeNeeded(s.current_count, idx_)
    THEN LET next == AddNextConf(s)
         IN  IF ~next.ret THEN next ELSE ProbeLoop(next, idx_)
    ELSE [s EXCEPT !.ret = TRUE]

\* MarginalTrek::probeConfigurationIdx(idx)
probeConfigurationIdx ==
    /\ kind = "MarginalTrek"
    /\ \E idx_ \in (-1)..(MaxConfs + 1) :
          /\ SetTrek(ProbeLoop(TrekState, idx_))
          /\ probed' = [ idx |-> idx_, count |-> current_count ]
    /\ seek' = << >>
    /\ UNCHANGED << kind, frame, ctorVars, ownerVars,
                    marginalVars, mode_conf, precalcVars, tableVars,
                    layeredVars >>

\* The for loop of processUntilCutoff from index i on: s.add(_conf_lprobs[i])
\* and the test s.get() >= cutoff.  s is a sum of log-probabilities, each at
\* most log(1) = 0, and the cutoff is a probability, at least 0: s carries
\* whether the sum is still 0, the one value of it that reaches such a
\* cutoff, and then only the cutoff 0.  Yields last_idx.
RECURSIVE CutoffScan(_, _, _, _)
CutoffScan(lps, i, zero, cutoff) ==
    IF i >= Len(lps) THEN -1
    ELSE LET s == zero /\ lps[i + 1] = Power(Den, atomCnt)
         IN  IF s /\ cutoff <= 0 THEN i
             ELSE CutoffScan(lps, i + 1, s, cutoff)

\* while(totalProb.get() < cutoff && add_next_conf()) {}
RECURSIVE CutoffLoop(_, _)
CutoffLoop(s, cutoff) ==
    IF s.totalProb < cutoff
    THEN LET next == AddNextConf(s)
         IN  IF next.ret THEN CutoffLoop(next, cutoff) ELSE s
    ELSE s

\* A MarginalTrek run until add_next_conf returns false.
RECURSIVE Exhaust(_)
Exhaust(s) ==
    LET next == AddNextConf(s)
    IN  IF next.ret THEN Exhaust(next) ELSE s

\* The probability cutoffs tried, on the scale Den^atomCnt.  A cutoff is
\* compared with the total probability of a prefix of the configurations in
\* the order of the trek (and with a sum that is at most 0): the totals of
\* the prefixes, from the empty prefix (0) to them all, and one cutoff just
\* above each cover every cutoff that is no less than 0.
TrekCutoffs ==
    LET all == Exhaust(TrekState).conf_lprobs
        sums == { SumTo(all, i) : i \in 0..Len(all) }
    IN  sums \cup { x + 1 : x \in sums }

\* MarginalTrek::processUntilCutoff(cutoff)
processUntilCutoff ==
    /\ kind = "MarginalTrek"
    /\ \E cutoff \in TrekCutoffs :
          LET last_idx == CutoffScan(conf_lprobs, 0, TRUE, cutoff)
              s == CutoffLoop(TrekState, cutoff)
          IN  IF last_idx > -1
              THEN /\ seek' = [ cutoff |-> cutoff, count |-> current_count,
                                ret |-> last_idx ]
                   /\ SetTrek(TrekState)
              ELSE /\ seek' = [ cutoff |-> cutoff, count |-> current_count,
                                ret |-> Len(s.conf_lprobs) ]
                   /\ SetTrek([s EXCEPT !.ret = ret])
    /\ probed' = << >>
    /\ UNCHANGED << kind, frame, ctorVars, ownerVars,
                    marginalVars, mode_conf, precalcVars, tableVars,
                    layeredVars >>

\* PrecalculatedMarginal::PrecalculatedMarginal(Marginal&&, lCutOff, sort)
NewPrecalculatedMarginal ==
    /\ kind = "Marginal"
    /\ mode_conf # nullptr
    /\ \E lCutOff_ \in Cutoffs, sort_ \in BOOLEAN, rev \in BOOLEAN :
          LET cs == PrecalcSorted(lCutOff_, sort_, rev) IN
          /\ lCutOff' = lCutOff_
          /\ sort' = sort_
          /\ configurations' = cs
          /\ lProbs' = Append(LProbsOf(cs), NegInf)
          /\ probs' = ProbsOf(cs)
          /\ masses' = MassesOf(cs)
    /\ kind' = "PrecalculatedMarginal"
    /\ UNCHANGED << frame, ctorVars, ownerVars,
                    marginalVars, mode_conf, trekVars, layeredVars, ret >>

\* LayeredMarginal::LayeredMarginal(Marginal&&)
NewLayeredMarginal ==
    /\ kind = "Marginal"
    /\ mode_conf # nullptr
    /\ kind' = "LayeredMarginal"
    /\ current_threshold' = InitialThreshold
    /\ sorted_up_to_idx' = 0
    /\ fringe' = << mode_conf >>
    /\ lProbs' = << PlusInf, NegInf >>
    /\ UNCHANGED << frame, ctorVars, ownerVars,
                    marginalVars, mode_conf, trekVars, precalcVars,
                    configurations, probs, masses, extends, thresholds,
                    ret >>

\* FringeEmpty that never reports an empty fringe.
FringeEmpty_never(fr) ==
    FALSE

\* fringe.empty(), the test extend makes on entry.
FringeEmpty(fr) ==
    fr = << >>

\* LayeredMarginal::extend(new_threshold) on an empty fringe
extend_empty ==
    /\ kind = "LayeredMarginal"
    /\ extends < MaxExtends
    /\ FringeEmpty(fringe)
    /\ ret' = FALSE
    /\ extends' = extends + 1
    /\ UNCHANGED << kind, frame, ctorVars, ownerVars,
                    marginalVars, mode_conf, trekVars, precalcVars,
                    tableVars, current_threshold, fringe, sorted_up_to_idx,
                    thresholds >>

\* LayeredMarginal::extend(new_threshold) on a non-empty fringe
extend ==
    /\ kind = "LayeredMarginal"
    /\ extends < MaxExtends
    /\ ~FringeEmpty(fringe)
    /\ \E new_threshold \in Cutoffs :
          LET r == ExtendLoop([ fringe |-> fringe, new_fringe |-> << >>,
                                visited |-> Range(fringe) ],
                              configurations, new_threshold,
                              current_threshold)
          IN
          \E rev \in BOOLEAN :
          LET cs == SortTail(r[1], sorted_up_to_idx, rev)
              added == SubSeq(cs, sorted_up_to_idx + 1, Len(cs))
          IN  /\ current_threshold' = new_threshold
              /\ fringe' = r[2]
              /\ configurations' = cs
              /\ lProbs' = Append(SubSeq(lProbs, 1, Len(lProbs) - 1)
                                      \o LProbsOf(added), NegInf)
              /\ probs' = probs \o ProbsOf(added)
              /\ masses' = masses \o MassesOf(added)
              /\ sorted_up_to_idx' = Len(cs)
              /\ thresholds' = Append(thresholds, new_threshold)
    /\ ret' = TRUE
    /\ extends' = extends + 1
    /\ UNCHANGED << kind, frame, ctorVars, ownerVars,
                    marginalVars, mode_conf, trekVars, precalcVars >>

Next ==
    \/ ensureModeConf
    \/ NewMarginalTrek
    \/ add_next_conf
    \/ probeConfigurationIdx
    \/ processUntilCutoff
    \/ NewPrecalculatedMarginal
    \/ NewLayeredMarginal
    \/ extend_empty
    \/ extend

Spec == Init /\ [][Next]_vars

\* ------------------------------------------------- Marginal::Marginal
\* The constructor seen from its arguments: _isotopeNo, _atomCnt and _probs
\* (each probability the rational probs[i] / Den), with the masses taken from
\* MassTable.  The members are initialised in the order the class declares
\* them: atomCnt(verify_atom_cnt(_atomCnt)) before
\* atom_lProbs(getMLogProbs(_probs, isotopeNo)).

\* ISOSPEC_G_FACT_TABLE_SIZE, the size of the table of log-factorials, scaled
\* so that the atom counts the constructor lets through are 0..MaxAtoms.
ISOSPEC_G_FACT_TABLE_SIZE == MaxAtoms + 2

\* Whether verify_atom_cnt throws std::length_error.
verify_atom_cnt_throws(atomCnt_) ==
    ISOSPEC_G_FACT_TABLE_SIZE - 1 <= atomCnt_

\* InvalidProbability turning away the probability 1 as well.
InvalidProbability_one(p) ==
    p <= 0 \/ p >= Den

\* probs[ii] <= 0.0 || probs[ii] > 1.0
InvalidProbability(p) ==
    p <= 0 \/ p > Den

\* Whether getMLogProbs throws std::invalid_argument.
getMLogProbs_throws(probs_, isoNo) ==
    \E ii \in 1..isoNo : InvalidProbability(probs_[ii])

\* The arguments tried: probabilities from 0 to just above 1, atom counts
\* from 0 to just above the size of the table.
CtorArgs ==
    UNION { [ isotopeNo : {k},
              atomCnt : 0..(ISOSPEC_G_FACT_TABLE_SIZE + 1),
              probs : [1..k -> 0..(Den + 1)] ] : k \in 1..MaxIsotopes }

\* The fields of the specialisations, the bookkeeping of the calls and the
\* instances, as they are while no enumerator and no instance exists.
Untouched ==
    /\ current_count = 0
    /\ pq = << >>
    /\ visited = {}
    /\ totalProb = 0
    /\ confs = << >>
    /\ conf_lprobs = << >>
    /\ conf_masses = << >>
    /\ lCutOff = NegInf
    /\ sort = FALSE
    /\ configurations = << >>
    /\ lProbs = << >>
    /\ probs = << >>
    /\ masses = << >>
    /\ current_threshold = NegInf
    /\ fringe = << >>
    /\ sorted_up_to_idx = 0
    /\ extends = 0
    /\ thresholds = << >>
    /\ ret = TRUE
    /\ probed = << >>
    /\ seek = << >>
    /\ frame = << >>

\* The rounding modes of <cfenv>.
RoundingModes ==
    { "FE_TONEAREST", "FE_UPWARD", "FE_DOWNWARD", "FE_TOWARDZERO" }

\* The rounding mode getMLogProbs leaves behind, from the mode curr_method it
\* finds: fegetround, fesetround(FE_UPWARD), new double[isoNo], the loop,
\* fesetround(curr_method).  bad_alloc: operator new[] throws.
getMLogProbs_fenv(curr_method, bad_alloc) ==
    IF bad_alloc THEN "FE_UPWARD" ELSE curr_method

\* The rounding mode get_loggamma_nominator leaves behind: fegetround,
\* fesetround(FE_UPWARD), lgamma, fesetround(curr_method).
get_loggamma_nominator_fenv(curr_method) ==
    curr_method

\* Before the constructor runs: the arguments are chosen, no object exists.
InitCtor ==
    /\ kind = "none"
    /\ args \in CtorArgs
    /\ thrown = ""
    /\ \E mode \in RoundingModes : fenv = [ before |-> mode, now |-> mode ]
    /\ isotopeNo = 0
    /\ atomCnt = 0
    /\ atom_lProbs = << >>
    /\ atom_masses = << >>
    /\ mode_conf = nullptr
    /\ instances = << >>
    /\ heap = << >>
    /\ Untouched

\* Marginal::Marginal(_masses, _probs, _isotopeNo, _atomCnt)
Marginal_ctor ==
    /\ kind = "none"
    /\ thrown = ""
    /\ IF verify_atom_cnt_throws(args.atomCnt)
       THEN /\ thrown' = "length_error"
            /\ UNCHANGED << kind, marginalVars >>
       ELSE IF getMLogProbs_throws(args.probs, args.isotopeNo)
       THEN /\ thrown' = "invalid_argument"
            /\ UNCHANGED << kind, marginalVars >>
       ELSE /\ thrown' = ""
            /\ kind' = "Marginal"
            /\ isotopeNo' = args.isotopeNo
            /\ atomCnt' = args.atomCnt
            /\ atom_lProbs' = args.probs
            /\ atom_masses' = SubSeq(MassTable, 1, args.isotopeNo)
    /\ fenv' = [fenv EXCEPT !.now =
                    IF verify_atom_cnt_throws(args.atomCnt)
                       \/ getMLogProbs_throws(args.probs, args.isotopeNo)
                    THEN fenv.now
                    ELSE get_loggamma_nominator_fenv(
                             getMLogProbs_fenv(fenv.now, FALSE))]
    /\ UNCHANGED << frame, args, ownerVars, mode_conf, trekVars, precalcVars,
                    tableVars, layeredVars, ret >>

\* Marginal::Marginal(_masses, _probs, _isotopeNo, _atomCnt) running out of
\* memory: operator new[] throws std::bad_alloc in getMLogProbs or, after
\* getMLogProbs has returned, in array_copy of the masses.
Marginal_ctor_bad_alloc ==
    /\ kind = "none"
    /\ thrown = ""
    /\ ~verify_atom_cnt_throws(args.atomCnt)
    /\ ~getMLogProbs_throws(args.probs, args.isotopeNo)
    /\ \E failing \in { "getMLogProbs", "array_copy" } :
          fenv' = [fenv EXCEPT !.now =
                      getMLogProbs_fenv(fenv.now, failing = "getMLogProbs")]
    /\ thrown' = "bad_alloc"
    /\ UNCHANGED << kind, marginalVars >>
    /\ UNCHANGED << frame, args, ownerVars, mode_conf, trekVars, precalcVars,
                    tableVars, layeredVars, ret >>

NextCtor ==
    \/ Marginal_ctor
    \/ Marginal_ctor_bad_alloc

SpecCtor == InitCtor /\ [][NextCtor]_vars

\* ------------------------------------- writeInitialConfiguration by steps
\* The call writeInitialConfiguration(atomCnt, isotopeNo, atom_lProbs, res)
\* that setupMode makes, followed statement by statement.  frame holds the
\* locals res, diff, i, LP and modified, the number t of the pair (ii, jj)
\* the two nested for loops stand at (ii = t / isotopeNo, jj = t % isotopeNo)
\* and the statement pc the call stands at.  The indices are 0-based as in
\* the code; res[x] of the code is frame.res[x + 1].

\* The marginals Marginal::Marginal lets through: every probability in
\* (0, 1], whatever their sum.
InitMode ==
    /\ kind = "Marginal"
    /\ isotopeNo \in 1..MaxIsotopes
    /\ atomCnt \in 0..MaxAtoms
    /\ atom_lProbs \in [1..isotopeNo -> 1..Den]
    /\ atom_masses = SubSeq(MassTable, 1, isotopeNo)
    /\ mode_conf = nullptr
    /\ args = [ isotopeNo |-> isotopeNo, atomCnt |-> atomCnt,
                probs |-> atom_lProbs ]
    /\ thrown = ""
    /\ fenv = [ before |-> "FE_TONEAREST", now |-> "FE_TONEAREST" ]
    /\ instances = << >>
    /\ heap = << >>
    /\ current_count = 0
    /\ pq = << >>
    /\ visited = {}
    /\ totalProb = 0
    /\ confs = << >>
    /\ conf_lprobs = << >>
    /\ conf_masses = << >>
    /\ lCutOff = NegInf
    /\ sort = FALSE
    /\ configurations = << >>
    /\ lProbs = << >>
    /\ probs = << >>
    /\ masses = << >>
    /\ current_threshold = NegInf
    /\ fringe = << >>
    /\ sorted_up_to_idx = 0
    /\ extends = 0
    /\ thresholds = << >>
    /\ ret = TRUE
    /\ probed = << >>
    /\ seek = << >>
    /\ frame = [ pc |-> "seed", res |-> << >>, diff |-> 0, i |-> 0,
                 LP |-> 0, modified |-> TRUE, t |-> 0 ]

\* What a call of writeInitialConfiguration leaves alone.
ModeFrame ==
    UNCHANGED << kind, marginalVars, trekVars, precalcVars, tableVars,
                 layeredVars, ret, ctorVars, ownerVars >>

\* The first loop, s, diff, and the two if statements up to the while loop:
\* if(diff > 0) res[0] += diff; if(diff < 0) { diff = abs(diff); i = 0; ... }
wic_seed ==
    /\ frame # << >>
    /\ frame.pc = "seed"
    /\ LET res == SeedFloor(atomCnt, isotopeNo, atom_lProbs)
           s == SumTo(res, isotopeNo)
           diff == atomCnt - s
       IN  frame' = [frame EXCEPT
                        !.res = IF diff > 0
                                THEN [res EXCEPT ![1] = res[1] + diff]
                                ELSE res,
                        !.diff = IF diff < 0 THEN -diff ELSE diff,
                        !.i = 0,
                        !.pc = IF diff < 0 THEN "redistribute" ELSE "climb"]
    /\ UNCHANGED mode_conf
    /\ ModeFrame

\* RedistributeBody carrying the whole excess on to the next index.
RedistributeBody_nocarry(f) ==
    LET coordDiff == f.res[f.i + 1] - f.diff IN
    IF coordDiff >= 0
    THEN [f EXCEPT !.res[f.i + 1] = f.res[f.i + 1] - f.diff, !.diff = 0]
    ELSE [f EXCEPT !.res[f.i + 1] = 0, !.i = f.i + 1]

\* The body of while(diff > 0): coordDiff = res[i] - diff, then either
\* res[i] -= diff, diff = 0 or res[i] = 0, i++, diff = abs(coordDiff).
RedistributeBody(f) ==
    LET coordDiff == f.res[f.i + 1] - f.diff IN
    IF coordDiff >= 0
    THEN [f EXCEPT !.res[f.i + 1] = f.res[f.i + 1] - f.diff, !.diff = 0]
    ELSE [f EXCEPT !.res[f.i + 1] = 0, !.i = f.i + 1, !.diff = -coordDiff]

\* One round of while(diff > 0).  res has isotopeNo entries: a round that
\* stands at i >= isotopeNo reads and writes past the end of the array.
wic_redistribute ==
    /\ frame # << >>
    /\ frame.pc = "redistribute"
    /\ frame' = IF frame.i >= isotopeNo
                THEN [frame EXCEPT !.pc = "out_of_bounds"]
                ELSE LET f == RedistributeBody(frame) IN
                     IF f.diff > 0 THEN f ELSE [f EXCEPT !.pc = "climb"]
    /\ UNCHANGED mode_conf
    /\ ModeFrame

\* modified = true; LP = unnormalized_logProb(res, lprobs, isotopeNo); and
\* the entry into while(modified): modified = false, the for loops start.
wic_climb ==
    /\ frame # << >>
    /\ frame.pc = "climb"
    /\ frame' = [frame EXCEPT
                    !.LP = unnormalized_logProb(frame.res, atom_lProbs,
                                                isotopeNo),
                    !.modified = FALSE,
                    !.t = 0,
                    !.pc = "scan"]
    /\ UNCHANGED mode_conf
    /\ ModeFrame

\* The body of the two for loops at the pair (ii, jj).
wic_pair ==
    /\ frame # << >>
    /\ frame.pc = "scan"
    /\ frame.t < isotopeNo * isotopeNo
    /\ LET ii == (frame.t \div isotopeNo) + 1
           jj == (frame.t % isotopeNo) + 1
       IN  IF ii # jj /\ frame.res[ii] > 0
           THEN LET cand == Transfer(frame.res, jj, ii)
                    NLP == unnormalized_logProb(cand, atom_lProbs, isotopeNo)
                IN  IF ClimbAccepts(NLP, frame.LP, ii, jj)
                    THEN frame' = [frame EXCEPT !.res = cand,
                                                !.modified = TRUE,
                                                !.LP = NLP,
                                                !.t = frame.t + 1]
                    ELSE frame' = [frame EXCEPT !.t = frame.t + 1]
           ELSE frame' = [frame EXCEPT !.t = frame.t + 1]
    /\ UNCHANGED mode_conf
    /\ ModeFrame

\* The end of the for loops: while(modified) goes round again or the call
\* returns; setupMode keeps res as mode_conf.
wic_pass ==
    /\ frame # << >>
    /\ frame.pc = "scan"
    /\ frame.t = isotopeNo * isotopeNo
    /\ IF frame.modified
       THEN /\ frame' = [frame EXCEPT !.modified = FALSE, !.t = 0]
            /\ UNCHANGED mode_conf
       ELSE /\ frame' = [frame EXCEPT !.pc = "done"]
            /\ mode_conf' = frame.res
    /\ ModeFrame

NextMode ==
    \/ wic_seed
    \/ wic_redistribute
    \/ wic_climb
    \/ wic_pair
    \/ wic_pass

SpecMode == InitMode /\ [][NextMode]_vars

\* The call runs: a statement that can be executed is executed.
SpecModeFair == SpecMode /\ WF_vars(NextMode)

\* ------------------------------------------------ ownership of the arrays
\* An instance is the addresses it holds in atom_lProbs, atom_masses and
\* mode_conf (0 for nullptr), its flag disowned, and whether its destructor
\* has run.  heap[a] counts how often the array at address a was handed to
\* delete[]; new[] yields the next address.  The specialisations start with
\* Marginal(std::move(m)) and free none of the three arrays themselves, so a
\* move into one of them is a move.

\* delete[] a
Free(h, a) ==
    IF a = 0 THEN h ELSE [h EXCEPT ![a] = h[a] + 1]

InitOwner ==
    /\ kind = "none"
    /\ args = [ isotopeNo |-> 0, atomCnt |-> 0, probs |-> << >> ]
    /\ thrown = ""
    /\ fenv = [ before |-> "FE_TONEAREST", now |-> "FE_TONEAREST" ]
    /\ isotopeNo = 0
    /\ atomCnt = 0
    /\ atom_lProbs = << >>
    /\ atom_masses = << >>
    /\ mode_conf = nullptr
    /\ instances = << >>
    /\ heap = << >>
    /\ Untouched

\* Marginal::Marginal(_masses, _probs, _isotopeNo, _atomCnt): getMLogProbs
\* and array_copy allocate the two arrays, mode_conf is nullptr.
Marginal_new ==
    /\ Len(instances) < MaxInstances
    /\ instances' = Append(instances,
                        [ disowned |-> FALSE,
                          atom_lProbs |-> Len(heap) + 1,
                          atom_masses |-> Len(heap) + 2,
                          mode_conf |-> 0,
                          destroyed |-> FALSE ])
    /\ heap' = heap \o << 0, 0 >>
    /\ UNCHANGED << kind, frame, ctorVars, marginalVars, mode_conf, trekVars,
                    precalcVars, tableVars, layeredVars, ret >>

\* Marginal::Marginal(Marginal&& other): disowned and the two array pointers
\* are taken from other, other.disowned is set, and the mode configuration,
\* if other has one, is copied into a new array.
Marginal_move ==
    /\ Len(instances) < MaxInstances
    /\ \E src \in 1..Len(instances) :
          LET other == instances[src]
              copied == other.mode_conf # 0
          IN  /\ ~other.destroyed
              /\ instances' =
                    Append([instances EXCEPT ![src].disowned = TRUE],
                           [ disowned |-> other.disowned,
                             atom_lProbs |-> other.atom_lProbs,
                             atom_masses |-> other.atom_masses,
                             mode_conf |-> IF copied THEN Len(heap) + 1
                                           ELSE 0,
                             destroyed |-> FALSE ])
              /\ heap' = IF copied THEN Append(heap, 0) ELSE heap
    /\ UNCHANGED << kind, frame, ctorVars, marginalVars, mode_conf, trekVars,
                    precalcVars, tableVars, layeredVars, ret >>

\* Marginal::setupMode, reached through ensureModeConf when mode_conf is
\* nullptr: computeModeConf allocates the mode configuration.  Only
\* instances that were not moved from are used this way.
Marginal_setupMode ==
    /\ \E i \in 1..Len(instances) :
          /\ ~instances[i].destroyed
          /\ ~instances[i].disowned
          /\ instances[i].mode_conf = 0
          /\ instances' = [instances EXCEPT ![i].mode_conf = Len(heap) + 1]
          /\ heap' = Append(heap, 0)
    /\ UNCHANGED << kind, frame, ctorVars, marginalVars, mode_conf, trekVars,
                    precalcVars, tableVars, layeredVars, ret >>

\* Marginal::~Marginal
Marginal_dtor ==
    /\ \E i \in 1..Len(instances) :
          LET this == instances[i]
          IN  /\ ~this.destroyed
              /\ instances' = [instances EXCEPT ![i].destroyed = TRUE]
              /\ heap' = IF ~this.disowned
                         THEN Free(Free(Free(heap, this.atom_masses),
                                        this.atom_lProbs), this.mode_conf)
                         ELSE heap
    /\ UNCHANGED << kind, frame, ctorVars, marginalVars, mode_conf, trekVars,
                    precalcVars, tableVars, layeredVars, ret >>

NextOwner ==
    \/ Marginal_new
    \/ Marginal_move
    \/ Marginal_setupMode
    \/ Marginal_dtor

SpecOwner == InitOwner /\ [][NextOwner]_vars

\* ============================================================ properties
IsTrek == kind = "MarginalTrek"
IsPrecalculated == kind = "PrecalculatedMarginal"
IsLayered == kind = "LayeredMarginal"

\* The configurations of the marginal in hand.
AllConfs == Simplex(isotopeNo, atomCnt)

\* C(n + k - 1, k - 1), the number of configurations of the marginal.
NoOfConfs ==
    Binomial(atomCnt + isotopeNo - 1, isotopeNo - 1)

\* No element of seq occurs in it twice.
NoDuplicates(seq) ==
    \A i, j \in 1..Len(seq) : i # j => seq[i] # seq[j]

\* conf has isotopeNo non-negative entries that sum to atomCnt.
OnSimplex(conf) ==
    /\ DOMAIN conf = 1..isotopeNo
    /\ \A i \in 1..isotopeNo : conf[i] >= 0
    /\ SumTo(conf, isotopeNo) = atomCnt

\* The configurations at or above a cutoff.
AtLeast(cutoff) ==
    { c \in AllConfs : logProb(c) >= cutoff }

\* Every threshold passed to extend so far was at most the ones before it.
NonIncreasing(seq) ==
    \A i \in 1..(Len(seq) - 1) : seq[i] >= seq[i + 1]

\* C1: in a MarginalTrek, after construction and after any number of
\* add_next_conf steps, the emitted log-probabilities are non-increasing:
\* conf_lprobs[i] >= conf_lprobs[j] for all i < j < count.
C1_TrekNonIncreasing ==
    IsTrek =>
        \A i, j \in 1..Len(conf_lprobs) :
            i < j => conf_lprobs[i] >= conf_lprobs[j]

\* A MarginalTrek that has emitted at least three configurations, the last
\* strictly less probable than the first.
C1_Witness ==
    /\ IsTrek
    /\ Len(conf_lprobs) >= 3
    /\ conf_lprobs[1] > conf_lprobs[Len(conf_lprobs)]

\* C2: in a MarginalTrek no configuration is emitted twice: confs[i] and
\* confs[j] differ for all i # j < count.
C2_TrekNoDuplicates ==
    IsTrek => NoDuplicates(confs)

\* A MarginalTrek that has emitted at least four configurations while
\* neighbours it had already visited were met again.
C2_Witness ==
    /\ IsTrek
    /\ Len(confs) >= 4
    /\ Cardinality(visited) > Len(confs)

\* C3: a MarginalTrek emits every configuration of the simplex: each
\* add_next_conf made before all C(n+k-1, k-1) configurations are emitted
\* returns true and emits one more configuration of the marginal, the queue
\* is empty exactly when all of them are emitted, and a call returns false,
\* changing nothing, exactly from then on.
C3_TrekStep ==
    (IsTrek /\ IsTrek' /\ probed' = << >> /\ seek' = << >>) =>
        IF Len(confs) < NoOfConfs
        THEN /\ ret'
             /\ Len(confs') = Len(confs) + 1
             /\ SubSeq(confs', 1, Len(confs)) = confs
             /\ confs'[Len(confs')] \in AllConfs
        ELSE /\ ~ret'
             /\ confs' = confs

C3_TrekState ==
    IsTrek =>
        /\ (pq = << >>) <=> (Len(confs) = NoOfConfs)
        /\ (pq = << >>) => Range(confs) = AllConfs
        /\ ~ret => Range(confs) = AllConfs
        /\ current_count = Len(confs)
        /\ Len(confs) >= 1

C3_TrekEmitsAll ==
    [](C3_TrekState) /\ [][C3_TrekStep]_vars

\* A MarginalTrek on a simplex of at least six configurations whose
\* add_next_conf has returned false.
C3_Witness ==
    /\ IsTrek
    /\ ~ret
    /\ NoOfConfs >= 6
    /\ Len(confs) = NoOfConfs

\* C4: every configuration emitted or stored by a MarginalTrek, a
\* PrecalculatedMarginal or a LayeredMarginal, and every configuration in
\* the Trek's queue or visited set or in the Layered fringe, has isotopeNo
\* non-negative entries that sum to atomCnt.
C4_OnSimplex ==
    \A c \in Range(confs) \cup Range(pq) \cup visited
                \cup Range(configurations) \cup Range(fringe)
                \cup (IF mode_conf = nullptr THEN {} ELSE { mode_conf }) :
        OnSimplex(c)

\* A MarginalTrek that has emitted at least two configurations and has both
\* emitted and queued a configuration with an isotope count of zero (a
\* transfer out of that isotope would leave the simplex).
C4_Witness ==
    /\ IsTrek
    /\ Len(confs) >= 2
    /\ \E i \in 1..Len(pq) : \E j \in 1..isotopeNo : pq[i][j] = 0
    /\ \E i \in 1..Len(confs) : \E j \in 1..isotopeNo : confs[i][j] = 0

\* C5: a PrecalculatedMarginal built with cutoff lCutOff stores exactly the
\* configurations c of the simplex with logProb(c) >= lCutOff, each once.
C5_PrecalcExact ==
    IsPrecalculated =>
        /\ Range(configurations) = AtLeast(lCutOff)
        /\ NoDuplicates(configurations)

\* A PrecalculatedMarginal whose cutoff keeps some configurations of the
\* simplex and leaves some out.
C5_Witness ==
    /\ IsPrecalculated
    /\ Len(configurations) >= 3
    /\ Len(configurations) < NoOfConfs

\* C6: a PrecalculatedMarginal holds the same set of configurations as the
\* one built from the same marginal and cutoff with the other value of sort
\* (whatever order std::sort leaves equal elements in), and with sort = true
\* its log-probabilities are in descending order.
C6_PrecalcSort ==
    IsPrecalculated =>
        /\ \A rev \in BOOLEAN :
              Range(configurations) = Range(PrecalcSorted(lCutOff, ~sort, rev))
        /\ sort =>
              \A i \in 1..(Len(configurations) - 1) :
                  lProbs[i] >= lProbs[i + 1]

\* A sorted PrecalculatedMarginal whose order differs from the order in which
\* the configurations were found.
C6_Witness ==
    /\ IsPrecalculated
    /\ sort
    /\ Len(configurations) >= 3
    /\ configurations # PrecalcConfigurations(lCutOff)

\* C7: a PrecalculatedMarginal of N configurations has N + 1 log-
\* probabilities, the last of them -infinity; the mode is stored only if its
\* log-probability is at least the cutoff, and otherwise N = 0 and
\* log_prob(0) = -infinity.
C7_PrecalcSentinel ==
    IsPrecalculated =>
        /\ Len(lProbs) = Len(configurations) + 1
        /\ lProbs[Len(configurations) + 1] = NegInf
        /\ \A i \in 1..Len(configurations) : lProbs[i] > NegInf
        /\ (logProb(mode_conf) >= lCutOff) => mode_conf \in Range(configurations)
        /\ (logProb(mode_conf) < lCutOff) =>
              /\ configurations = << >>
              /\ lProbs[1] = NegInf

\* A PrecalculatedMarginal built with a cutoff above the mode.
C7_Witness ==
    /\ IsPrecalculated
    /\ logProb(mode_conf) < lCutOff
    /\ NoOfConfs >= 3

\* C8 as claimed: after every extend call that returned true, whatever the
\* thresholds of the calls so far, the accepted configurations are exactly
\* those with logProb(c) >= current_threshold, each stored once.
C8_AnySequence ==
    (IsLayered /\ thresholds # << >>) =>
        /\ Range(configurations) = AtLeast(current_threshold)
        /\ NoDuplicates(configurations)

\* C8 amended: after extend calls whose thresholds never increased, the
\* accepted configurations are exactly those with
\* logProb(c) >= current_threshold, the threshold of the last call that
\* returned true, each stored once.
C8_LayeredExact ==
    (IsLayered /\ thresholds # << >> /\ NonIncreasing(thresholds)) =>
        /\ current_threshold = thresholds[Len(thresholds)]
        /\ Range(configurations) = AtLeast(current_threshold)
        /\ NoDuplicates(configurations)

\* A LayeredMarginal after two extend calls with decreasing thresholds, the
\* second of which accepted more configurations but not all.
C8_Witness ==
    /\ IsLayered
    /\ Len(thresholds) >= 2
    /\ thresholds[1] > thresholds[2]
    /\ Cardinality(AtLeast(thresholds[1])) >= 1
    /\ Len(configurations) > Cardinality(AtLeast(thresholds[1]))
    /\ Len(configurations) < NoOfConfs

\* C9: after extend calls with decreasing thresholds L1, ..., Lm the
\* LayeredMarginal holds the same set of configurations as a
\* PrecalculatedMarginal built from the same marginal with cutoff Lm.
C9_LayeredIsPrecalc ==
    (IsLayered /\ thresholds # << >> /\ NonIncreasing(thresholds)) =>
        LET precalculated ==
                PrecalcConfigurations(thresholds[Len(thresholds)])
        IN  /\ Range(configurations) = Range(precalculated)
            /\ Len(configurations) = Len(precalculated)

\* A LayeredMarginal after three extend calls with strictly decreasing
\* thresholds, each of which accepted configurations.
C9_Witness ==
    /\ IsLayered
    /\ Len(thresholds) >= 3
    /\ thresholds[1] > thresholds[2]
    /\ thresholds[2] > thresholds[3]
    /\ 1 <= Cardinality(AtLeast(thresholds[1]))
    /\ Cardinality(AtLeast(thresholds[1])) < Cardinality(AtLeast(thresholds[2]))
    /\ Cardinality(AtLeast(thresholds[2])) < Len(configurations)

\* C10: an extend call only appends: what was stored before the call stays
\* at the same index with the same log_prob, prob and mass, and every
\* configuration the call accepts has
\* new_threshold <= logProb(c) < the current_threshold before the call.
C10_ExtendStep ==
    (IsLayered /\ IsLayered') =>
        /\ Len(configurations') >= Len(configurations)
        /\ SubSeq(configurations', 1, Len(configurations)) = configurations
        /\ SubSeq(lProbs', 1, Len(configurations) + 1)
              = SubSeq(lProbs, 1, Len(configurations) + 1)
        /\ SubSeq(probs', 1, Len(configurations)) = probs
        /\ SubSeq(masses', 1, Len(configurations)) = masses
        /\ \A i \in (Len(configurations) + 1)..Len(configurations') :
              /\ current_threshold' <= logProb(configurations'[i])
              /\ logProb(configurations'[i]) < current_threshold

C10_ExtendAppends ==
    [][C10_ExtendStep]_vars

\* A LayeredMarginal whose second extend call appended configurations to the
\* ones the first had accepted.
C10_Witness ==
    /\ IsLayered
    /\ Len(thresholds) = 2
    /\ thresholds[1] > thresholds[2]
    /\ Cardinality(AtLeast(thresholds[1])) >= 2
    /\ Len(configurations) >= Cardinality(AtLeast(thresholds[1])) + 2

\* C11: a call of LayeredMarginal::extend returns false exactly when the
\* fringe is empty on entry, and then changes none of configurations, lProbs,
\* probs, masses, fringe, current_threshold, sorted_up_to_idx; on a non-empty
\* fringe it returns true, whether or not a configuration is accepted.
C11_ExtendStep ==
    (IsLayered /\ extends' = extends + 1) =>
        /\ (ret' = FALSE) <=> (fringe = << >>)
        /\ (fringe = << >>) =>
              UNCHANGED << configurations, lProbs, probs, masses, fringe,
                           current_threshold, sorted_up_to_idx >>

C11_ExtendReturn == [][C11_ExtendStep]_vars

\* A LayeredMarginal whose first extend returned true without accepting
\* anything (its threshold lay above the mode), whose second extend accepted
\* at least two configurations and emptied the fringe, and whose third
\* extend returned false.
C11_Witness ==
    /\ IsLayered
    /\ ret = FALSE
    /\ fringe = << >>
    /\ Len(thresholds) = 2
    /\ thresholds[1] > logProb(mode_conf)
    /\ Len(configurations) >= 2

C13_LayeredSorted ==
    IsLayered =>
        /\ sorted_up_to_idx = Len(configurations)
        /\ \A i \in 0..(sorted_up_to_idx - 1) :
              get_lProb(i) = logProb(configurations[i + 1])
        /\ \A i \in 0..(sorted_up_to_idx - 2) :
              get_lProb(i) >= get_lProb(i + 1)

\* A LayeredMarginal after an extend with a threshold above that of the
\* extend before it, and a later extend that accepted at least two
\* configurations of different log-probability below the first layer.
C13_Witness ==
    /\ IsLayered
    /\ Len(thresholds) = 3
    /\ thresholds[2] > thresholds[1]
    /\ thresholds[3] < thresholds[1]
    /\ \E i, j \in 1..Len(configurations) :
          /\ logProb(configurations[i]) >= thresholds[1]
          /\ logProb(configurations[i]) > logProb(configurations[j])
          /\ logProb(configurations[j]) > logProb(configurations[Len(configurations)])

\* The number of configurations a MarginalTrek emitted before the first one
\* with a log-probability below the cutoff.
EmittedBefore(cutoff) ==
    LET below == { i \in 1..Len(confs) : conf_lprobs[i] < cutoff }
    IN  IF below = {} THEN Len(confs)
        ELSE (CHOOSE i \in below : \A j \in below : i <= j) - 1

\* C14: for every marginal and every cutoff L, once a MarginalTrek has
\* emitted a configuration below L or is exhausted, the configurations it
\* emitted before the first one below L are exactly those a
\* PrecalculatedMarginal stores at cutoff L, each once in both.
C14_TrekIsPrecalc ==
    IsTrek =>
        \A L \in Cutoffs :
            LET n == EmittedBefore(L)
                emitted == SubSeq(confs, 1, n)
                stored == PrecalcConfigurations(L)
            IN  (n < Len(confs) \/ Len(pq) = 0) =>
                    /\ Range(emitted) = Range(stored)
                    /\ Len(stored) = n
                    /\ NoDuplicates(emitted)
                    /\ NoDuplicates(stored)

\* A MarginalTrek that emitted two equiprobable configurations and then a
\* less probable one, with more still in its queue: a cutoff at the first
\* two separates a proper, non-trivial prefix.
C14_Witness ==
    /\ IsTrek
    /\ Len(confs) >= 3
    /\ Len(pq) >= 1
    /\ conf_lprobs[1] = conf_lprobs[2]
    /\ conf_lprobs[3] < conf_lprobs[2]

\* C15: once the mode configuration of a marginal is set, its log-probability
\* is at least that of every configuration of the marginal.
C15_ModeIsMaximum ==
    mode_conf # nullptr =>
        /\ mode_conf \in AllConfs
        /\ \A c \in AllConfs : logProb(mode_conf) >= logProb(c)

\* A marginal of at least two isotopes whose mode is set and differs from
\* the seed of the hill climb, and is not the only maximum.
C15_Witness ==
    /\ kind = "Marginal"
    /\ mode_conf # nullptr
    /\ isotopeNo >= 2
    /\ mode_conf # SeedConfiguration(atomCnt, isotopeNo, atom_lProbs)
    /\ \E c \in AllConfs : c # mode_conf /\ logProb(c) = logProb(mode_conf)

\* The constructor has returned or thrown.
CtorDone == kind = "Marginal" \/ thrown # ""

\* Some probability handed to the constructor is <= 0 or > 1.
BadProbs ==
    \E i \in 1..args.isotopeNo : args.probs[i] <= 0 \/ args.probs[i] > Den

\* No Marginal object is observable.
NoObject ==
    /\ kind = "none"
    /\ atom_lProbs = << >>
    /\ atom_masses = << >>
    /\ mode_conf = nullptr

\* C16 as stated: construction fails with std::invalid_argument exactly when
\* some probability is <= 0 or > 1, and then no object is observable.
C16_InvalidProbability ==
    CtorDone =>
        /\ (thrown = "invalid_argument") <=> BadProbs
        /\ (thrown = "invalid_argument") => NoObject

\* C16, amended: a construction that does not fail with std::length_error
\* (the atom count is verified first) fails with std::invalid_argument
\* exactly when some probability is <= 0 or > 1; a construction with such a
\* probability always fails; after a failure no object is observable.
C16_InvalidProbabilityAfterAtomCnt ==
    CtorDone =>
        /\ (thrown # "length_error") =>
              ((thrown = "invalid_argument") <=> BadProbs)
        /\ BadProbs => thrown # ""
        /\ (thrown # "") => NoObject

\* A construction turned away with std::invalid_argument for a probability
\* of 0 although another probability was exactly 1.
C16_Witness ==
    /\ thrown = "invalid_argument"
    /\ args.isotopeNo >= 2
    /\ \E i \in 1..args.isotopeNo : args.probs[i] = Den
    /\ \E i \in 1..args.isotopeNo : args.probs[i] = 0

\* C17: construction fails with std::length_error exactly when the atom
\* count is at least ISOSPEC_G_FACT_TABLE_SIZE: every smaller count with
\* valid probabilities constructs, every count from there on is rejected.
C17_AtomCountTooLarge ==
    CtorDone =>
        /\ (thrown = "length_error")
              <=> (args.atomCnt >= ISOSPEC_G_FACT_TABLE_SIZE)
        /\ (args.atomCnt < ISOSPEC_G_FACT_TABLE_SIZE /\ ~BadProbs
               /\ thrown # "bad_alloc")
              => kind = "Marginal"
        /\ (args.atomCnt >= ISOSPEC_G_FACT_TABLE_SIZE) => thrown # ""

\* The arrays an instance points to.
Held(inst) ==
    { inst.atom_lProbs, inst.atom_masses, inst.mode_conf } \ {0}

\* C18: over any sequence of constructions, move constructions and
\* destructions no array is freed twice, an array not yet freed has exactly
\* one instance with disowned = false that is to free it, and once every
\* instance is destroyed every array allocated has been freed (exactly once).
C18_FreedExactlyOnce ==
    /\ \A a \in 1..Len(heap) : heap[a] <= 1
    /\ \A a \in 1..Len(heap) :
          heap[a] = 0 =>
              Cardinality({ i \in 1..Len(instances) :
                              /\ ~instances[i].destroyed
                              /\ ~instances[i].disowned
                              /\ a \in Held(instances[i]) }) <= 1
    /\ (\A i \in 1..Len(instances) : instances[i].destroyed) =>
          \A a \in 1..Len(heap) : heap[a] = 1

\* C20: probeConfigurationIdx(idx) returns true exactly when idx is below
\* the number of configurations of the marginal; after a true return
\* current_count exceeds idx; a call with idx below current_count expands
\* nothing, and a call expands no further than to idx + 1 configurations.
C20_ProbeConfigurationIdx ==
    (IsTrek /\ probed # << >>) =>
        /\ ret = (probed.idx < NoOfConfs)
        /\ ret => current_count > probed.idx
        /\ current_count =
              IF probed.idx < probed.count THEN probed.count
              ELSE IF probed.idx < NoOfConfs THEN probed.idx + 1
              ELSE NoOfConfs
        /\ Len(confs) = current_count

\* A probeConfigurationIdx that returned true after expanding by at least
\* two configurations, short of the whole marginal.
C20_Witness ==
    /\ IsTrek
    /\ probed # << >>
    /\ ret = TRUE
    /\ probed.idx >= probed.count + 1
    /\ current_count < NoOfConfs

\* C21: processUntilCutoff(T) returns the length of the shortest prefix of
\* the configurations it found computed whose probabilities sum to at least
\* T, expanding nothing, when there is such a prefix; otherwise it expands
\* until the total probability reaches T or the queue is empty, no further,
\* and returns the number of configurations computed.
C21_ProcessUntilCutoff ==
    (IsTrek /\ seek # << >>) =>
        LET reach == { i \in 1..seek.count :
                          SumTo(conf_lprobs, i) >= seek.cutoff }
        IN  IF reach # {}
            THEN /\ \A i \in reach : seek.ret <= i
                 /\ seek.ret \in reach
                 /\ current_count = seek.count
            ELSE /\ seek.ret = current_count
                 /\ totalProb >= seek.cutoff \/ pq = << >>
                 /\ current_count > seek.count =>
                        SumTo(conf_lprobs, current_count - 1) < seek.cutoff

\* A MarginalTrek on the binary symmetric marginal: two isotopes of
\* probability 1/2 each, four atoms.
BinarySymmetricTrek ==
    /\ IsTrek
    /\ isotopeNo = 2
    /\ atomCnt = 4
    /\ 2 * atom_lProbs[1] = Den
    /\ 2 * atom_lProbs[2] = Den

\* Whether confs is a prefix of the order first, second, third followed by
\* [4,0] and [0,4].
EmitsInOrder(first, second, third) ==
    /\ Len(confs) <= 5
    /\ Len(confs) >= 1 => confs[1] = first
    /\ Len(confs) >= 2 => confs[2] = second
    /\ Len(confs) >= 3 => confs[3] = third
    /\ Len(confs) >= 4 => confs[4] \in { << 4, 0 >>, << 0, 4 >> }
    /\ Len(confs) >= 5 => /\ confs[5] \in { << 4, 0 >>, << 0, 4 >> }
                          /\ confs[5] # confs[4]
    /\ (pq = << >> \/ ~ret) => Len(confs) = 5

C23_IndexAlignment ==
    /\ IsTrek =>
          /\ Len(conf_lprobs) = Len(confs)
          /\ Len(conf_masses) = Len(confs)
          /\ \A i \in 1..Len(confs) :
                /\ conf_lprobs[i] = logProb(confs[i])
                /\ conf_masses[i] = calc_mass(confs[i], atom_masses, isotopeNo)
    /\ IsPrecalculated =>
          /\ Len(lProbs) = Len(configurations) + 1
          /\ Len(masses) = Len(configurations)
          /\ \A i \in 1..Len(configurations) :
                /\ lProbs[i] = logProb(configurations[i])
                /\ masses[i] = calc_mass(configurations[i], atom_masses,
                                         isotopeNo)
    /\ IsLayered =>
          /\ Len(lProbs) = Len(configurations) + 2
          /\ Len(masses) = Len(configurations)
          /\ \A i \in 1..Len(configurations) :
                /\ get_lProb(i - 1) = logProb(configurations[i])
                /\ masses[i] = calc_mass(configurations[i], atom_masses,
                                         isotopeNo)

\* A LayeredMarginal whose first two extend calls both accepted
\* configurations, four or more in all, of at least three different masses.
C23_Witness ==
    /\ IsLayered
    /\ Len(thresholds) >= 2
    /\ Len(configurations) >= 4
    /\ Cardinality(AtLeast(thresholds[1])) >= 1
    /\ thresholds[2] < thresholds[1]
    /\ Cardinality(AtLeast(thresholds[2]))
          > Cardinality(AtLeast(thresholds[1]))
    /\ Cardinality(Range(masses)) >= 3

\* The configurations one unit transfer away from c.
NeighboursOf(c) ==
    UNION { { Transfer(c, i, j) : i \in (1..isotopeNo) \ { j } } :
            j \in { x \in 1..isotopeNo : c[x] > 0 } }

\* C24: in a LayeredMarginal, after construction and after every extend,
\* every configuration of the fringe has logProb < current_threshold, and
\* every neighbour of an accepted configuration that has
\* logProb < current_threshold is in the fringe or accepted.
C24_FringeInvariant ==
    IsLayered =>
        /\ \A c \in Range(fringe) : logProb(c) < current_threshold
        /\ \A c \in Range(configurations) :
              \A nc \in NeighboursOf(c) :
                  logProb(nc) < current_threshold =>
                      nc \in Range(fringe) \cup Range(configurations)

\* A LayeredMarginal after two extend calls that accepted configurations,
\* one of which has a neighbour in the fringe and a neighbour that is
\* accepted.
C24_Witness ==
    /\ IsLayered
    /\ Len(thresholds) >= 2
    /\ Len(fringe) >= 2
    /\ \E c \in Range(configurations) :
          /\ NeighboursOf(c) \cap Range(fringe) # {}
          /\ NeighboursOf(c) \cap Range(configurations) # {}
    /\ Len(configurations) >= 3

\* The mode has no more probable neighbour.
ModeIsLocalMaximum ==
    \A nc \in NeighboursOf(mode_conf) : logProb(nc) <= logProb(mode_conf)

\* The pairs << i, j >>, i # j and mode_conf[j] > 0, whose transfer ++c[i],
\* --c[j] takes the mode to an equally probable configuration.
ModeTies ==
    { pair \in (1..isotopeNo) \X (1..isotopeNo) :
        /\ pair[1] # pair[2]
        /\ mode_conf[pair[2]] > 0
        /\ logProb(Transfer(mode_conf, pair[1], pair[2]))
              = logProb(mode_conf) }

\* C25: at the mode c, every neighbour reached by c_i++, c_j-- (i # j,
\* c_j > 0) has logProb no greater than that of c, and where the two are
\* equal, i < j.
C25_ModeLocalOptimum ==
    mode_conf # nullptr =>
        /\ ModeIsLocalMaximum
        /\ \A pair \in ModeTies : pair[1] < pair[2]

\* C25 as amended: at the mode c, every neighbour reached by c_i++, c_j--
\* (i # j, c_j > 0) has logProb no greater than that of c, and where the two
\* are equal, i > j.
C25_ModeLocalOptimumAbove ==
    mode_conf # nullptr =>
        /\ ModeIsLocalMaximum
        /\ \A pair \in ModeTies : pair[1] > pair[2]

\* A mode of a marginal of three isotopes that has an equally probable
\* neighbour and a less probable one.
C25_Witness ==
    /\ mode_conf # nullptr
    /\ isotopeNo = 3
    /\ \E nc \in NeighboursOf(mode_conf) : logProb(nc) = logProb(mode_conf)
    /\ \E nc \in NeighboursOf(mode_conf) : logProb(nc) < logProb(mode_conf)

\* C26: the seeding phase of the mode finder never reads or writes an index
\* >= isotopeNo, and leaves isotopeNo entries, none negative, that sum to
\* atomCnt, for every marginal with probabilities in (0, 1].
C26_SeedOnSimplex ==
    frame # << >> =>
        /\ frame.pc # "out_of_bounds"
        /\ frame.pc = "redistribute" => frame.i < isotopeNo
        /\ frame.pc = "climb" =>
              /\ Len(frame.res) = isotopeNo
              /\ \A x \in 1..isotopeNo : frame.res[x] >= 0
              /\ SumTo(frame.res, isotopeNo) = atomCnt

\* A seeding of three isotopes that took the excess off every index up to
\* the last one.
C26_Witness ==
    /\ frame # << >>
    /\ frame.pc = "climb"
    /\ isotopeNo = 3
    /\ frame.i = 2
    /\ atomCnt >= 1

\* 1 * conf[1] + ... + i * conf[i]: it falls with every transfer of an atom
\* from an index to a smaller one.
RECURSIVE IndexSum(_, _)
IndexSum(conf, i) ==
    IF i = 0 THEN 0 ELSE i * conf[i] + IndexSum(conf, i - 1)

\* An accepted transfer of the climb raises the unnormalized log-probability
\* or, leaving it as it is, lowers IndexSum: (logP, -IndexSum) rises in the
\* lexicographic order, and LP is the log-probability of res.
C27_AcceptStep ==
    (frame # << >> /\ frame.pc = "scan" /\ frame'.res # frame.res) =>
        LET old == unnormalized_logProb(frame.res, atom_lProbs, isotopeNo)
            new == unnormalized_logProb(frame'.res, atom_lProbs, isotopeNo)
        IN  /\ frame.LP = old
            /\ frame'.LP = new
            /\ \/ new > old
               \/ /\ new = old
                  /\ IndexSum(frame'.res, isotopeNo)
                        < IndexSum(frame.res, isotopeNo)

\* C27: the climb of the mode finder terminates for every marginal with
\* probabilities in (0, 1]: the call reaches its return, and every transfer
\* it accepts strictly raises (logP, tiebreak) in the lexicographic order.
C27_ClimbTerminates ==
    /\ <>(frame # << >> /\ frame.pc = "done")
    /\ [][C27_AcceptStep]_vars

\* A finished call whose climb moved off the seed along equally probable
\* configurations only.
C27_Witness ==
    /\ frame # << >>
    /\ frame.pc = "done"
    /\ isotopeNo >= 2
    /\ mode_conf # SeedConfiguration(atomCnt, isotopeNo, atom_lProbs)
    /\ logProb(mode_conf)
          = logProb(SeedConfiguration(atomCnt, isotopeNo, atom_lProbs))

\* C28: when Marginal::Marginal has returned or thrown, whether with
\* std::invalid_argument, std::length_error or std::bad_alloc, the rounding
\* mode of the process is the one it was called under.
C28_RoundingModeRestored ==
    CtorDone => fenv.now = fenv.before

\* The least of the thresholds in seq, PlusInf for none.
RECURSIVE MinThreshold(_)
MinThreshold(seq) ==
    IF seq = << >> THEN PlusInf
    ELSE LET rest == MinThreshold(SubSeq(seq, 1, Len(seq) - 1))
             last == seq[Len(seq)]
         IN  IF last < rest THEN last ELSE rest

\* After extend calls with thresholds in any order the accepted
\* configurations are those at or above the least threshold, each once.
C29_AcceptedSet ==
    (IsLayered /\ thresholds # << >>) =>
        /\ Range(configurations) = AtLeast(MinThreshold(thresholds))
        /\ NoDuplicates(configurations)

\* An extend with a threshold that is not below every earlier one accepts
\* nothing and sets current_threshold to its threshold.
C29_ExtendStep ==
    (IsLayered /\ thresholds # << >>
        /\ Len(thresholds') = Len(thresholds) + 1
        /\ thresholds'[Len(thresholds')] >= MinThreshold(thresholds)) =>
        /\ configurations' = configurations
        /\ current_threshold' = thresholds'[Len(thresholds')]

\* C29: in a LayeredMarginal, after any sequence of extend calls, the
\* accepted configurations are exactly those with logProb at or above the
\* least threshold passed so far, none twice; an extend whose threshold is
\* not lower than every earlier threshold accepts no configuration but sets
\* current_threshold to the higher value.
C29_ArbitraryThresholds ==
    /\ [](C29_AcceptedSet)
    /\ [][C29_ExtendStep]_vars

\* A LayeredMarginal after three extend calls, the second with a threshold
\* above the first and the third with one below them both, where the first
\* accepted some configurations and the third more, but not all.
C29_Witness ==
    /\ IsLayered
    /\ Len(thresholds) = 3
    /\ thresholds[2] > thresholds[1]
    /\ thresholds[3] < thresholds[1]
    /\ current_threshold = thresholds[3]
    /\ Cardinality(AtLeast(thresholds[1])) >= 1
    /\ Len(configurations) > Cardinality(AtLeast(thresholds[1]))
    /\ Len(configurations) < NoOfConfs

\* The fringe is empty exactly when every configuration is accepted.
C30_FringeEmptyIffAll ==
    IsLayered =>
        ((fringe = << >>) <=> (Range(configurations) = AllConfs))

\* An extend call returns false exactly when every configuration was
\* accepted before it; one that returns true leaves every configuration at
\* or above its threshold accepted.
C30_ExtendStep ==
    (IsLayered /\ extends' = extends + 1) =>
        /\ (ret' = FALSE) <=> (Range(configurations) = AllConfs)
        /\ (ret' = TRUE) =>
              AtLeast(current_threshold') \subseteq Range(configurations')

\* C30: in a LayeredMarginal, after any sequence of extend calls, the fringe
\* is empty if and only if every configuration of the simplex is accepted;
\* extend returns false exactly when nothing is left to accept, and otherwise
\* accepts every configuration that is at or above its threshold.
C30_LayeredExhaustion ==
    /\ [](C30_FringeEmptyIffAll)
    /\ [][C30_ExtendStep]_vars

\* A LayeredMarginal of six or more configurations that accepted them all in
\* two or more extend calls and then returned false from another.
C30_Witness ==
    /\ IsLayered
    /\ NoOfConfs >= 6
    /\ Len(thresholds) >= 2
    /\ Cardinality(AtLeast(thresholds[1])) < NoOfConfs
    /\ Range(configurations) = AllConfs
    /\ fringe = << >>
    /\ ret = FALSE

====
